---- MODULE Spec2Model ----
(***************************************************************************)
(* Hybrid retrieval engine of NeuraNotes.                                  *)
(*                                                                         *)
(*   SpecMerge   - mergeAndScore, the score fusion (pure function)         *)
(*   SpecCascade - one search attempt: hybridSearch of lib/hybridSearchVite*)
(*                 and the /api/hybrid-search handler behind the client    *)
(*                 library lib/hybridSearch                                *)
(*   SpecHook    - the useHybridSearch session hook (debounce, abort,      *)
(*                 publication)                                            *)
(*                                                                         *)
(* Scores are exact rationals: lexical and vector scores are counted in    *)
(* units of 1/Scale, weights in units of 1/WScale and hybrid scores in     *)
(* units of 1/(Scale*WScale).                                              *)
(***************************************************************************)
EXTENDS Integers, Sequences, FiniteSets, TLC

VARIABLES
    \* ---- mergeAndScore applied to drawn inputs
    mFts, mVec, mW, mOut, mDone,
    \* ---- one search attempt (cascade)
    entry, pc, query, opts, queryEmbedding, ftsResults, vectorResults,
    outcome, calls, ftsReturned, vecReturned, docReturned, embedFailed,
    storeErrors, mergeArgs, rpcThrew,
    \* ---- useHybridSearch
    isSearching, searchResults, searchQuery, searchError, searchStats,
    debounceTimeoutRef, searchAbortControllerRef, timers, aborted, attempts,
    nextTimer, window, lastSubmit, fired, cancelled, lastWrite, clearMark,
    producer, blankMark,
    \* ---- useAutoSave
    saveDocumentId, attached, editorContent, saveStatus, saveTimer, statusTimer,
    saving, edited, issued,
    \* ---- performDocumentSearch applied to drawn inputs
    dTable, dScope, dLimit, dError, dOut, dDone

mergeVars == <<mFts, mVec, mW, mOut, mDone>>
cascadeVars == <<entry, pc, query, opts, queryEmbedding, ftsResults,
                 vectorResults, outcome, calls, ftsReturned, vecReturned,
                 docReturned, embedFailed, storeErrors, mergeArgs, rpcThrew>>
hookVars == <<isSearching, searchResults, searchQuery, searchError,
              searchStats, debounceTimeoutRef, searchAbortControllerRef,
              timers, aborted, attempts, nextTimer, window, lastSubmit,
              fired, cancelled, lastWrite, clearMark, producer, blankMark>>
saveVars == <<saveDocumentId, attached, editorContent, saveStatus, saveTimer,
              statusTimer, saving, edited, issued>>
docVars == <<dTable, dScope, dLimit, dError, dOut, dDone>>
vars == <<mergeVars, cascadeVars, hookVars, saveVars, docVars>>

(***************************************************************************)
(* Bounds                                                                  *)
(***************************************************************************)
\* longest list a store returns to one executor call
MaxRows == 2
\* attempts one hook instance starts
MaxAttempts == 2
\* calls of the debounced search()
MaxCalls == 2

ChunkIds == {1, 2, 3}
DocIds == {1, 2}

RECURSIVE Factorial(_)
Factorial(n) == IF n <= 1 THEN 1 ELSE n * Factorial(n - 1)

\* 1 - index/length is a multiple of 1/Scale for every length up to MaxRows
Scale == Factorial(MaxRows)
WScale == 10
SimValues == {0, Scale \div 2, Scale}
WeightPairs == {<<5, 5>>, <<8, 2>>, <<2, 8>>, <<0, 10>>, <<5, -5>>, <<5, 0>>}

Max(a, b) == IF a >= b THEN a ELSE b
Min(a, b) == IF a <= b THEN a ELSE b

SeqsUpTo(S, n) == UNION {[1..k -> S] : k \in 0..n}
SliceAll(s, n) == s
Slice(s, n) == SubSeq(s, 1, Min(n, Len(s)))

(***************************************************************************)
(* Rows and mergeAndScore                                                  *)
(***************************************************************************)
\* a row of the embeddings table / of match_chunks; src is "doc" for the
\* rows performDocumentSearch builds from documents (they carry
\* document_title), "chunk" otherwise
Row(i, d, s, sim) == [id |-> i, document_id |-> d, src |-> s, similarity |-> sim]
DocOfChunk(i) == IF i = 3 THEN 2 ELSE 1

\* Math.max(0, 1 - (index / length)), index 0-based
FtsScoreOneBased(index, length) == Max(0, Scale - (((index + 1) * Scale) \div length))
FtsScore(index, length) == Max(0, Scale - ((index * Scale) \div length))

\* Map keyed by id, in insertion order
MapHasNever(m, k) == FALSE
MapHas(m, k) == \E i \in 1..Len(m) : m[i].id = k
MapIndex(m, k) == CHOOSE i \in 1..Len(m) : m[i].id = k
MapSet(m, k, v) == IF MapHas(m, k) THEN [m EXCEPT ![MapIndex(m, k)] = v]
                   ELSE Append(m, v)

FtsEntry(r, index, length, fw) ==
    [id |-> r.id, document_id |-> r.document_id, src |-> r.src,
     fts_score |-> FtsScore(index, length), vector_score |-> 0,
     hybrid_score |-> fw * FtsScore(index, length)]

RECURSIVE AddFtsResults(_, _, _, _)
AddFtsResults(m, fts, i, fw) ==
    IF i > Len(fts) THEN m
    ELSE AddFtsResults(MapSet(m, fts[i].id, FtsEntry(fts[i], i - 1, Len(fts), fw)),
                       fts, i + 1, fw)

MergeVector(m, r, fw, vw) ==
    IF MapHas(m, r.id)
    THEN LET e == m[MapIndex(m, r.id)]
         IN [m EXCEPT ![MapIndex(m, r.id)] =
                [e EXCEPT !.vector_score = r.similarity,
                          !.hybrid_score = fw * e.fts_score + vw * r.similarity]]
    ELSE Append(m, [id |-> r.id, document_id |-> r.document_id, src |-> "chunk",
                    fts_score |-> 0, vector_score |-> r.similarity,
                    hybrid_score |-> vw * r.similarity])

RECURSIVE AddVectorResults(_, _, _, _, _)
AddVectorResults(m, vec, i, fw, vw) ==
    IF i > Len(vec) THEN m
    ELSE AddVectorResults(MergeVector(m, vec[i], fw, vw), vec, i + 1, fw, vw)

\* Array.prototype.sort((a, b) => b.hybrid_score - a.hybrid_score): stable
\* (with the comparator reversed the order would be ascending)
InsertAscending(s, x) ==
    LET k == Cardinality({j \in 1..Len(s) : s[j].hybrid_score <= x.hybrid_score})
    IN SubSeq(s, 1, k) \o <<x>> \o SubSeq(s, k + 1, Len(s))
InsertByScore(s, x) ==
    \* s is sorted: the entries that stay before x are a prefix of s
    LET k == Cardinality({j \in 1..Len(s) : s[j].hybrid_score >= x.hybrid_score})
    IN SubSeq(s, 1, k) \o <<x>> \o SubSeq(s, k + 1, Len(s))

RECURSIVE SortFrom(_, _, _)
SortFrom(acc, s, i) ==
    IF i > Len(s) THEN acc ELSE SortFrom(InsertByScore(acc, s[i]), s, i + 1)

SortUnsorted(s) == s
SortByHybridScore(s) == SortFrom(<<>>, s, 1)

mergeAndScore(fts, vec, fw, vw) ==
    SortByHybridScore(AddVectorResults(AddFtsResults(<<>>, fts, 1, fw), vec, 1, fw, vw))

(***************************************************************************)
(* Query texts, options, outcomes                                          *)
(***************************************************************************)
\* a text: its content tag, its length and how many of its characters are
\* leading or trailing white space
Text(t, l, p) == [tag |-> t, length |-> l, pad |-> p]
Trim(q) == Text(q.tag, q.length - q.pad, 0)
IsBlankNever(q) == FALSE
IsBlank(q) == Trim(q).length = 0

CascadeTexts == {Text("", 0, 0), Text("", 2, 2), Text("a", 3, 0),
                 Text("a", 1000, 0), Text("a", 1001, 0)}
Limits == {1, 2}
NoDocument == 0
CascadeWeights == {<<5, 5>>, <<8, 2>>}
Options == [documentId : {NoDocument, 1}, limit : Limits,
            weights : CascadeWeights, useSupabaseFunction : BOOLEAN,
            fallbackToFTSOnly : BOOLEAN]
DefaultOptions == [documentId |-> NoDocument, limit |-> 1, weights |-> <<5, 5>>,
                   useSupabaseFunction |-> TRUE, fallbackToFTSOnly |-> TRUE]

Absent == "absent"
SuccessOutcome(results, method) ==
    [success |-> TRUE, results |-> results, total |-> Len(results),
     method |-> method, error |-> Absent]
\* the outer catch of hybridSearch; without it the exception leaves the
\* function and the caller gets no outcome
Uncaught(message) ==
    [success |-> FALSE, results |-> <<>>, total |-> 0, method |-> Absent,
     error |-> Absent]
ErrorOutcome(message) ==
    [success |-> FALSE, results |-> <<>>, total |-> 0, method |-> Absent,
     error |-> message]
NoOutcome == [success |-> FALSE, results |-> <<>>, total |-> 0,
              method |-> Absent, error |-> Absent]
\* what a call of mergeAndScore was given
NotMerged == [called |-> FALSE, fts |-> <<>>, vec |-> <<>>]
Merged(fts, vec) == [called |-> TRUE, fts |-> fts, vec |-> vec]
NotReturned == [done |-> FALSE, rows |-> <<>>]
Returned(rows) == [done |-> TRUE, rows |-> rows]

(***************************************************************************)
(* The stores: what a call may answer                                      *)
(***************************************************************************)
StoreAnswer(err, data) == [error |-> err, data |-> data]
DistinctIds(s) == \A i, j \in 1..Len(s) : i # j => s[i].id # s[j].id
InScope(d, documentId) == documentId = NoDocument \/ d = documentId

\* embeddings table, textSearch + eq(document_id) + limit
FtsAnswers(documentId, limit) ==
    {StoreAnswer(TRUE, <<>>)} \cup
    {StoreAnswer(FALSE, s) :
        s \in {t \in SeqsUpTo({Row(i, DocOfChunk(i), "chunk", 0) :
                                  i \in {c \in ChunkIds : InScope(DocOfChunk(c), documentId)}},
                              Min(limit, MaxRows)) : DistinctIds(t)}}

\* match_chunks / match_document_chunks: by similarity, best first
VectorAnswers(documentId, limit) ==
    {StoreAnswer(TRUE, <<>>)} \cup
    {StoreAnswer(FALSE, s) :
        s \in {t \in SeqsUpTo({Row(i, DocOfChunk(i), "chunk", sim) :
                                  i \in {c \in ChunkIds : InScope(DocOfChunk(c), documentId)},
                                  sim \in SimValues \ {0}},
                              Min(limit, MaxRows)) :
                 /\ DistinctIds(t)
                 /\ \A i \in 1..(Len(t) - 1) : t[i].similarity >= t[i + 1].similarity}}

\* documents table in store order; matches: the title or the extracted body
\* contains the query, case-insensitively
Document(d, m) == [id |-> d, matches |-> m]
DocumentTables ==
    {t \in SeqsUpTo({Document(d, m) : d \in DocIds, m \in BOOLEAN}, Cardinality(DocIds)) :
        DistinctIds(t)}
SelectSeq2(s, Test(_)) == SelectSeq(s, Test)
\* from('documents').select(...).limit(limit), with eq('id', documentId)
\* when scoped: the first limit documents of the scope, matching or not
DocumentQuery(t, documentId, limit) ==
    Slice(SelectSeq2(t, LAMBDA d : InScope(d.id, documentId)), limit)
DocumentAnswers(documentId, limit) ==
    {StoreAnswer(TRUE, <<>>)} \cup
    {StoreAnswer(FALSE, DocumentQuery(t, documentId, limit)) : t \in DocumentTables}

\* simple_hybrid_search / hybrid_search_document: scored by the store
RpcRow(i) == [id |-> i, document_id |-> DocOfChunk(i), src |-> "chunk",
              fts_score |-> 0, vector_score |-> Scale,
              hybrid_score |-> Scale * WScale]
RpcAnswers(documentId, limit) ==
    {StoreAnswer(TRUE, <<>>)} \cup
    {StoreAnswer(FALSE, s) :
        s \in {t \in SeqsUpTo({RpcRow(i) : i \in {c \in ChunkIds :
                                  InScope(DocOfChunk(c), documentId)}},
                              Min(limit, MaxRows)) : DistinctIds(t)}}

(***************************************************************************)
(* Executors                                                               *)
(***************************************************************************)
performFTSSearch(answer) == IF answer.error THEN <<>> ELSE answer.data
performVectorSearch(answer) == IF answer.error THEN <<>> ELSE answer.data

DocRowId(d) == 10 + d
RECURSIVE DocRows(_)
DocRows(docs) ==
    IF docs = <<>> THEN <<>>
    ELSE <<Row(DocRowId(Head(docs).id), Head(docs).id, "doc", 0)>> \o DocRows(Tail(docs))
performDocumentSearch(answer) ==
    IF answer.error THEN <<>>
    ELSE DocRows(SelectSeq2(answer.data, LAMBDA d : d.matches))

\* every statement of an executor sits in its try block and the catch returns
\* []: no store error is thrown to the caller of the executor
ExecutorThrowsOnError(answer) == answer.error
ExecutorThrows(answer) == FALSE
\* the stores that answered with an error in this attempt
Failed(answer, name) == IF answer.error THEN storeErrors \cup {name} ELSE storeErrors

\* ftsResults.length === 0
NeedsDocumentSearchAlways(rows) == TRUE
NeedsDocumentSearch(rows) == Len(rows) = 0

\* the embedding-failure branch formats whatever list it ended with
FallbackFormat(rows) ==
    [i \in 1..Len(rows) |->
        [id |-> rows[i].id, document_id |-> rows[i].document_id, src |-> rows[i].src,
         fts_score |-> FtsScore(i - 1, Len(rows)), vector_score |-> 0,
         hybrid_score |-> WScale * FtsScore(i - 1, Len(rows))]]
FallbackMethod(rows) ==
    IF Len(rows) > 0 THEN "document_search_fallback" ELSE "no_results_found"
FallbackOutcome(rows) == SuccessOutcome(FallbackFormat(rows), FallbackMethod(rows))

MergeOutcome(fts, vec, o) ==
    SuccessOutcome(Slice(mergeAndScore(fts, vec, o.weights[1], o.weights[2]), o.limit),
                   "javascript_merge")

DocIdle ==
    /\ dTable = <<>> /\ dScope = NoDocument /\ dLimit = 1
    /\ dError = FALSE /\ dOut = <<>> /\ dDone = FALSE

(***************************************************************************)
(* Idle states of the three parts                                          *)
(***************************************************************************)
MergeIdle ==
    /\ mFts = <<>> /\ mVec = <<>> /\ mW = <<5, 5>> /\ mOut = <<>> /\ mDone = FALSE

CascadeIdle ==
    /\ entry = "none" /\ pc = "idle"
    /\ query = Text("", 0, 0) /\ opts = DefaultOptions
    /\ queryEmbedding = FALSE
    /\ ftsResults = <<>> /\ vectorResults = <<>>
    /\ outcome = NoOutcome /\ calls = {}
    /\ ftsReturned = NotReturned /\ vecReturned = NotReturned
    /\ docReturned = NotReturned /\ embedFailed = FALSE
    /\ storeErrors = {} /\ mergeArgs = NotMerged /\ rpcThrew = FALSE

(***************************************************************************)
(* hybridSearch of lib/hybridSearchVite, one action per suspension point   *)
(***************************************************************************)
Finish(o) == /\ outcome' = o /\ pc' = "done"

LibCall(q, o) ==
    /\ pc = "idle"
    /\ entry' = "lib" /\ query' = q /\ opts' = o
    /\ IF IsBlank(q)
       THEN Finish(SuccessOutcome(<<>>, "empty_query")) /\ calls' = {}
       ELSE pc' = "lib_embed" /\ calls' = {"embed"} /\ outcome' = NoOutcome
    /\ UNCHANGED <<queryEmbedding, ftsResults, vectorResults, ftsReturned,
                   vecReturned, docReturned, embedFailed>>
    /\ UNCHANGED storeErrors
    /\ UNCHANGED mergeArgs
    /\ UNCHANGED rpcThrew

LibEmbedOk ==
    /\ pc = "lib_embed"
    /\ queryEmbedding' = TRUE
    /\ IF opts.useSupabaseFunction
       THEN pc' = "lib_rpc" /\ calls' = calls \cup {"rpc"}
       ELSE pc' = "lib_fts" /\ calls' = calls \cup {"fts"}
    /\ UNCHANGED <<entry, query, opts, ftsResults, vectorResults, outcome,
                   ftsReturned, vecReturned, docReturned, embedFailed>>
    /\ UNCHANGED storeErrors
    /\ UNCHANGED mergeArgs
    /\ UNCHANGED rpcThrew

LibEmbedFail ==
    /\ pc = "lib_embed"
    /\ embedFailed' = TRUE
    /\ IF ~opts.fallbackToFTSOnly
       THEN Finish(ErrorOutcome("Failed to generate query embedding")) /\ calls' = calls
       ELSE pc' = "lib_fts_fb" /\ calls' = calls \cup {"fts"} /\ outcome' = outcome
    /\ UNCHANGED <<entry, query, opts, queryEmbedding, ftsResults, vectorResults,
                   ftsReturned, vecReturned, docReturned>>
    /\ UNCHANGED storeErrors
    /\ UNCHANGED mergeArgs
    /\ UNCHANGED rpcThrew

LibFtsFallback ==
    /\ pc = "lib_fts_fb"
    /\ \E answer \in FtsAnswers(opts.documentId, opts.limit) :
         LET rows == performFTSSearch(answer) IN
         /\ storeErrors' = Failed(answer, "fts")
         /\ IF ExecutorThrows(answer)
            THEN /\ Finish(ErrorOutcome("store error")) /\ calls' = calls
                 /\ UNCHANGED <<ftsReturned, ftsResults>>
            ELSE /\ ftsReturned' = Returned(rows)
                 /\ ftsResults' = rows
                 /\ IF NeedsDocumentSearch(rows)
                    THEN pc' = "lib_doc_fb" /\ calls' = calls \cup {"doc"} /\ outcome' = outcome
                    ELSE Finish(FallbackOutcome(rows)) /\ calls' = calls
    /\ UNCHANGED <<entry, query, opts, queryEmbedding, vectorResults, vecReturned,
                   docReturned, embedFailed>>
    /\ UNCHANGED mergeArgs
    /\ UNCHANGED rpcThrew

LibDocFallback ==
    /\ pc = "lib_doc_fb"
    /\ \E answer \in DocumentAnswers(opts.documentId, opts.limit) :
         LET rows == performDocumentSearch(answer) IN
         /\ storeErrors' = Failed(answer, "doc")
         /\ IF ExecutorThrows(answer)
            THEN /\ Finish(ErrorOutcome("store error"))
                 /\ UNCHANGED <<docReturned, ftsResults>>
            ELSE /\ docReturned' = Returned(rows)
                 /\ ftsResults' = rows
                 /\ Finish(FallbackOutcome(rows))
    /\ UNCHANGED <<entry, query, opts, queryEmbedding, vectorResults, calls,
                   ftsReturned, vecReturned, embedFailed>>
    /\ UNCHANGED mergeArgs
    /\ UNCHANGED rpcThrew

LibRpcOk ==
    /\ pc = "lib_rpc"
    /\ \E answer \in RpcAnswers(opts.documentId, opts.limit) :
         /\ ~answer.error
         /\ Finish(SuccessOutcome(Slice(answer.data, opts.limit), "supabase_function"))
    /\ UNCHANGED <<entry, query, opts, queryEmbedding, ftsResults, vectorResults,
                   calls, ftsReturned, vecReturned, docReturned, embedFailed>>
    /\ UNCHANGED storeErrors
    /\ UNCHANGED mergeArgs
    /\ UNCHANGED rpcThrew

\* the catch assigns to the const useSupabaseFunction: a TypeError, which the
\* outer catch turns into an error outcome
LibRpcFail ==
    /\ pc = "lib_rpc"
    /\ Finish(ErrorOutcome("Assignment to constant variable."))
    /\ UNCHANGED <<entry, query, opts, queryEmbedding, ftsResults, vectorResults,
                   calls, ftsReturned, vecReturned, docReturned, embedFailed>>
    /\ UNCHANGED storeErrors
    /\ UNCHANGED mergeArgs
    /\ rpcThrew' = TRUE

LibFts ==
    /\ pc = "lib_fts"
    /\ \E answer \in FtsAnswers(opts.documentId, opts.limit * 2) :
         LET rows == performFTSSearch(answer) IN
         /\ storeErrors' = Failed(answer, "fts")
         /\ IF ExecutorThrows(answer)
            THEN /\ Finish(ErrorOutcome("store error")) /\ calls' = calls
                 /\ UNCHANGED <<ftsReturned, ftsResults>>
            ELSE /\ ftsReturned' = Returned(rows)
                 /\ ftsResults' = rows
                 /\ outcome' = outcome
                 /\ IF NeedsDocumentSearch(rows)
                    THEN pc' = "lib_doc" /\ calls' = calls \cup {"doc"}
                    ELSE pc' = "lib_vec" /\ calls' = calls \cup {"vector"}
    /\ UNCHANGED <<entry, query, opts, queryEmbedding, vectorResults,
                   vecReturned, docReturned, embedFailed>>
    /\ UNCHANGED mergeArgs
    /\ UNCHANGED rpcThrew

LibDoc ==
    /\ pc = "lib_doc"
    /\ \E answer \in DocumentAnswers(opts.documentId, opts.limit * 2) :
         LET rows == performDocumentSearch(answer) IN
         /\ storeErrors' = Failed(answer, "doc")
         /\ IF ExecutorThrows(answer)
            THEN /\ Finish(ErrorOutcome("store error")) /\ calls' = calls
                 /\ UNCHANGED <<docReturned, ftsResults>>
            ELSE /\ docReturned' = Returned(rows)
                 /\ ftsResults' = rows
                 /\ outcome' = outcome
                 /\ pc' = "lib_vec" /\ calls' = calls \cup {"vector"}
    /\ UNCHANGED <<entry, query, opts, queryEmbedding, vectorResults,
                   ftsReturned, vecReturned, embedFailed>>
    /\ UNCHANGED mergeArgs
    /\ UNCHANGED rpcThrew

LibVec ==
    /\ pc = "lib_vec"
    /\ \E answer \in VectorAnswers(opts.documentId, opts.limit * 2) :
         LET rows == performVectorSearch(answer) IN
         /\ storeErrors' = Failed(answer, "vector")
         /\ IF ExecutorThrows(answer)
            THEN /\ Finish(ErrorOutcome("store error"))
                 /\ UNCHANGED <<vecReturned, vectorResults, mergeArgs>>
            ELSE /\ vecReturned' = Returned(rows)
                 /\ vectorResults' = rows
                 /\ mergeArgs' = Merged(ftsResults, rows)
                 /\ Finish(MergeOutcome(ftsResults, rows, opts))
    /\ UNCHANGED <<entry, query, opts, queryEmbedding, ftsResults, calls,
                   ftsReturned, docReturned, embedFailed>>
    /\ UNCHANGED rpcThrew

(***************************************************************************)
(* hybridSearch of lib/hybridSearch: POST /api/hybrid-search, and handler  *)
(***************************************************************************)
HttpResponse(status, body) == [status |-> status, body |-> body]

\* lines 39-66 of the client: a non-2xx status or success # true is thrown
\* and caught into an error outcome
ClientOutcome(response) ==
    IF response.status # 200 THEN ErrorOutcome(response.body.error)
    ELSE IF ~response.body.success THEN ErrorOutcome("Search failed")
    ELSE SuccessOutcome(response.body.results, response.body.method)

Ok200(results, method) ==
    HttpResponse(200, [success |-> TRUE, results |-> results, method |-> method,
                       error |-> Absent])
Fail(status, message) ==
    HttpResponse(status, [success |-> FALSE, results |-> <<>>, method |-> Absent,
                          error |-> message])

MaxQueryLength == 1000

ApiCall(q, o) ==
    /\ pc = "idle"
    /\ entry' = "api" /\ query' = Trim(q) /\ opts' = o
    /\ IF IsBlank(Trim(q))
       THEN /\ Finish(ClientOutcome(Fail(400, "Query is required and must be a non-empty string")))
            /\ calls' = {}
       ELSE IF Trim(q).length > MaxQueryLength
       THEN /\ Finish(ClientOutcome(Fail(400, "Query must be less than 1000 characters")))
            /\ calls' = {}
       ELSE pc' = "api_embed" /\ calls' = {"embed"} /\ outcome' = NoOutcome
    /\ UNCHANGED <<queryEmbedding, ftsResults, vectorResults, ftsReturned,
                   vecReturned, docReturned, embedFailed>>
    /\ UNCHANGED storeErrors
    /\ UNCHANGED mergeArgs
    /\ UNCHANGED rpcThrew

ApiEmbedOk ==
    /\ pc = "api_embed"
    /\ queryEmbedding' = TRUE
    /\ IF opts.useSupabaseFunction
       THEN pc' = "api_rpc" /\ calls' = calls \cup {"rpc"}
       ELSE pc' = "api_join" /\ calls' = calls \cup {"fts", "vector"}
    /\ UNCHANGED <<entry, query, opts, ftsResults, vectorResults, outcome,
                   ftsReturned, vecReturned, docReturned, embedFailed>>
    /\ UNCHANGED storeErrors
    /\ UNCHANGED mergeArgs
    /\ UNCHANGED rpcThrew

ApiEmbedFail ==
    /\ pc = "api_embed"
    /\ embedFailed' = TRUE
    /\ Finish(ClientOutcome(Fail(500, "Internal server error")))
    /\ UNCHANGED <<entry, query, opts, queryEmbedding, ftsResults, vectorResults,
                   calls, ftsReturned, vecReturned, docReturned>>
    /\ UNCHANGED storeErrors
    /\ UNCHANGED mergeArgs
    /\ UNCHANGED rpcThrew

ApiRpcOk ==
    /\ pc = "api_rpc"
    /\ \E answer \in RpcAnswers(opts.documentId, opts.limit) :
         /\ ~answer.error
         /\ Finish(ClientOutcome(Ok200(answer.data, "sql_function")))
    /\ UNCHANGED <<entry, query, opts, queryEmbedding, ftsResults, vectorResults,
                   calls, ftsReturned, vecReturned, docReturned, embedFailed>>
    /\ UNCHANGED storeErrors
    /\ UNCHANGED mergeArgs
    /\ UNCHANGED rpcThrew

ApiRpcFail ==
    /\ pc = "api_rpc"
    /\ Finish(ClientOutcome(Fail(500, "Internal server error")))
    /\ UNCHANGED <<entry, query, opts, queryEmbedding, ftsResults, vectorResults,
                   calls, ftsReturned, vecReturned, docReturned, embedFailed>>
    /\ UNCHANGED storeErrors
    /\ UNCHANGED mergeArgs
    /\ rpcThrew' = TRUE

FilterNothing(rows, documentId) == rows
FilterByDocument(rows, documentId) ==
    IF documentId # NoDocument
    THEN SelectSeq2(rows, LAMBDA r : r.document_id = documentId)
    ELSE rows

\* after Promise.all: filter, merge, slice, respond
ApiJoin(fts, vec) ==
    LET merged == mergeAndScore(FilterByDocument(fts, opts.documentId),
                                FilterByDocument(vec, opts.documentId),
                                opts.weights[1], opts.weights[2])
    IN /\ mergeArgs' = Merged(FilterByDocument(fts, opts.documentId),
                            FilterByDocument(vec, opts.documentId))
       /\ Finish(ClientOutcome(Ok200(Slice(merged, opts.limit), "javascript_merge")))

ApiFts ==
    /\ pc = "api_join" /\ ~ftsReturned.done
    /\ \E answer \in FtsAnswers(NoDocument, opts.limit * 2) :
         LET rows == performFTSSearch(answer) IN
         /\ storeErrors' = Failed(answer, "fts")
         /\ IF ExecutorThrows(answer)
            THEN /\ Finish(ClientOutcome(Fail(500, "Internal server error")))
                 /\ UNCHANGED <<ftsReturned, ftsResults, mergeArgs>>
            ELSE /\ ftsReturned' = Returned(rows)
                 /\ ftsResults' = rows
                 /\ IF vecReturned.done
                    THEN ApiJoin(rows, vectorResults)
                    ELSE pc' = pc /\ outcome' = outcome /\ mergeArgs' = mergeArgs
    /\ UNCHANGED <<entry, query, opts, queryEmbedding, vectorResults, calls,
                   vecReturned, docReturned, embedFailed>>
    /\ UNCHANGED rpcThrew

ApiVec ==
    /\ pc = "api_join" /\ ~vecReturned.done
    /\ \E answer \in VectorAnswers(NoDocument, opts.limit * 2) :
         LET rows == performVectorSearch(answer) IN
         /\ storeErrors' = Failed(answer, "vector")
         /\ IF ExecutorThrows(answer)
            THEN /\ Finish(ClientOutcome(Fail(500, "Internal server error")))
                 /\ UNCHANGED <<vecReturned, vectorResults, mergeArgs>>
            ELSE /\ vecReturned' = Returned(rows)
                 /\ vectorResults' = rows
                 /\ IF ftsReturned.done
                    THEN ApiJoin(ftsResults, rows)
                    ELSE pc' = pc /\ outcome' = outcome /\ mergeArgs' = mergeArgs
    /\ UNCHANGED <<entry, query, opts, queryEmbedding, ftsResults, calls,
                   ftsReturned, docReturned, embedFailed>>
    /\ UNCHANGED rpcThrew

\* the caller has the outcome; the next attempt starts from scratch
Return ==
    /\ pc = "done"
    /\ entry' = "none" /\ pc' = "idle"
    /\ query' = Text("", 0, 0) /\ opts' = DefaultOptions
    /\ queryEmbedding' = FALSE
    /\ ftsResults' = <<>> /\ vectorResults' = <<>>
    /\ outcome' = NoOutcome /\ calls' = {}
    /\ ftsReturned' = NotReturned /\ vecReturned' = NotReturned
    /\ docReturned' = NotReturned /\ embedFailed' = FALSE
    /\ storeErrors' = {} /\ mergeArgs' = NotMerged /\ rpcThrew' = FALSE

(***************************************************************************)
(* useHybridSearch                                                         *)
(***************************************************************************)
\* the (query, searchOptions) pairs the callers pass
HookCalls == {<<Text("", 2, 2), "none">>, <<Text("a", 1, 0), "none">>,
              <<Text("b", 1, 0), "keywords">>}
NoText == Text("", 0, 0)
Null == 0

\* { limit: defaultLimit, ftsWeight: defaultFtsWeight,
\*   vectorWeight: defaultVectorWeight, ...searchOptions }
SearchParams(o) ==
    IF o = "keywords" THEN [limit |-> 10, weights |-> <<8, 2>>]
    ELSE [limit |-> 10, weights |-> <<5, 5>>]

\* what the awaited hybridSearch resolves to (it never rejects)
HookOutcomes == {SuccessOutcome(<<>>, "sql_function"),
                 SuccessOutcome(<<RpcRow(1)>>, "sql_function"),
                 ErrorOutcome("Internal server error")}

formatSearchResults(results) ==
    [i \in 1..Len(results) |->
        [id |-> results[i].id, documentId |-> results[i].document_id,
         score |-> results[i].hybrid_score, ftsScore |-> results[i].fts_score,
         vectorScore |-> results[i].vector_score]]

NoStats == [total |-> 0, method |-> Absent]
Args(q, o) == [query |-> q, opts |-> o]
\* the last publication by a completing attempt: was a later attempt already
\* started, and had clearSearch been called since the attempt started
Write(a) == [stale |-> a # Len(attempts), cleared |-> a <= clearMark]
NoWrite == [stale |-> FALSE, cleared |-> FALSE]
\* a completed attempt keeps nothing
\* the attempt whose results are on display: its query text and its stats
NoProducer == [query |-> NoText, stats |-> NoStats]
Producer(q, result) ==
    IF Len(result.results) = 0 THEN NoProducer
    ELSE [query |-> q, stats |-> [total |-> result.total, method |-> result.method]]
\* setSearchQuery(query): the query of the closure of this attempt
KeptQuery(a) == searchQuery
SubmittedQuery(a) == attempts[a].query
Settled == [query |-> NoText, params |-> SearchParams("none"), status |-> "done"]

HookInit ==
    /\ isSearching = FALSE /\ searchResults = <<>> /\ searchQuery = NoText
    /\ searchError = Absent /\ searchStats = NoStats
    /\ debounceTimeoutRef = Null /\ searchAbortControllerRef = Null
    /\ timers = {} /\ aborted = {} /\ attempts = <<>>
    /\ nextTimer = 1 /\ window = 0 /\ lastSubmit = <<>> /\ fired = <<>>
    /\ cancelled = {} /\ lastWrite = NoWrite /\ clearMark = 0
    /\ producer = NoProducer /\ blankMark = 0

\* clearTimeout(id): a timer that has fired or was cleared is not pending
ClearTimeoutNoop(ts, ref) == ts
ClearTimeout(ts, ref) == {t \in ts : t.id # ref}
Pending(ref) == \E t \in timers : t.id = ref
\* the debounce window whose pending timer a clearTimeout(ref) discards
Discarded(ref) == {t.win : t \in {u \in timers : u.id = ref}}

\* controller.abort()
Abort(ref) == IF ref # Null THEN aborted \cup {ref} ELSE aborted

\* the attempts in flight at the last blank submission are those up to
\* blankMark: the latest attempt up to n, other than a, that is still pending
InFlightUpTo(n, a) ==
    LET P == {b \in 1..n : b # a /\ attempts[b].status = "pending"}
    IN IF P = {} THEN 0 ELSE CHOOSE b \in P : \A c \in P : c <= b

\* performSearch up to its await
performSearch(q, o) ==
    IF IsBlank(q)
    THEN /\ searchResults' = <<>>
         /\ searchStats' = NoStats
         /\ producer' = NoProducer
         /\ UNCHANGED <<isSearching, searchError, searchAbortControllerRef,
                        aborted, attempts>>
    ELSE /\ Len(attempts) < MaxAttempts
         /\ aborted' = Abort(searchAbortControllerRef)
         /\ attempts' = Append(attempts, [query |-> q, params |-> SearchParams(o),
                                          status |-> "pending"])
         /\ searchAbortControllerRef' = Len(attempts) + 1
         /\ isSearching' = TRUE
         /\ searchError' = Absent
         /\ UNCHANGED <<searchResults, searchStats, producer>>

\* search: the debounced entry point
debouncedSearch(q, o) ==
    /\ nextTimer <= MaxCalls
    /\ LET sameWindow == Pending(debounceTimeoutRef)
           w == IF sameWindow THEN window ELSE window + 1
       IN /\ timers' = ClearTimeout(timers, debounceTimeoutRef)
                          \cup {[id |-> nextTimer, query |-> q, opts |-> o, win |-> w]}
          /\ window' = w
          /\ lastSubmit' = IF sameWindow THEN [lastSubmit EXCEPT ![w] = Args(q, o)]
                           ELSE Append(lastSubmit, Args(q, o))
          /\ fired' = IF sameWindow THEN fired ELSE Append(fired, <<>>)
    /\ debounceTimeoutRef' = nextTimer
    /\ nextTimer' = nextTimer + 1
    /\ UNCHANGED <<isSearching, searchResults, searchQuery, searchError,
                   searchStats, searchAbortControllerRef, aborted, attempts,
                   cancelled, lastWrite, clearMark, producer>>

\* the setTimeout callback
TimerFire ==
    /\ \E t \in timers :
         /\ timers' = timers \ {t}
         /\ fired' = [fired EXCEPT ![t.win] = Append(@, Args(t.query, t.opts))]
         /\ performSearch(t.query, t.opts)
    /\ UNCHANGED <<searchQuery, debounceTimeoutRef, nextTimer, window,
                   lastSubmit, cancelled, lastWrite, clearMark>>

searchNow(q, o) ==
    /\ timers' = ClearTimeout(timers, debounceTimeoutRef)
    /\ cancelled' = cancelled \cup Discarded(debounceTimeoutRef)
    /\ performSearch(q, o)
    /\ UNCHANGED <<searchQuery, debounceTimeoutRef, nextTimer, window,
                   lastSubmit, fired, lastWrite, clearMark>>

\* the continuation of performSearch after await hybridSearch(...)
Complete(a, result) ==
    /\ a \in 1..Len(attempts) /\ attempts[a].status = "pending"
    /\ attempts' = [attempts EXCEPT ![a] = Settled]
    /\ IF searchAbortControllerRef # Null /\ searchAbortControllerRef \in aborted
       THEN UNCHANGED <<searchResults, searchStats, searchQuery, searchError,
                        lastWrite, producer>>
       ELSE /\ lastWrite' = Write(a)
            /\ IF result.success
               THEN /\ searchResults' = formatSearchResults(result.results)
                    /\ searchStats' = [total |-> result.total, method |-> result.method]
                    /\ searchQuery' = SubmittedQuery(a)
                    /\ searchError' = searchError
                    /\ producer' = Producer(attempts[a].query, result)
               ELSE /\ searchError' = result.error
                    /\ searchResults' = <<>>
                    /\ searchStats' = NoStats
                    /\ searchQuery' = searchQuery
                    /\ producer' = NoProducer
    \* finally
    /\ isSearching' = FALSE
    /\ searchAbortControllerRef' = Null
    /\ UNCHANGED <<debounceTimeoutRef, timers, aborted, nextTimer, window,
                   lastSubmit, fired, cancelled, clearMark>>

clearSearch ==
    /\ aborted' = Abort(searchAbortControllerRef)
    /\ timers' = ClearTimeout(timers, debounceTimeoutRef)
    /\ cancelled' = cancelled \cup Discarded(debounceTimeoutRef)
    /\ searchResults' = <<>>
    /\ searchQuery' = NoText
    /\ searchError' = Absent
    /\ searchStats' = NoStats
    /\ isSearching' = FALSE
    /\ clearMark' = Len(attempts)
    /\ producer' = NoProducer
    /\ UNCHANGED <<debounceTimeoutRef, searchAbortControllerRef, attempts,
                   nextTimer, window, lastSubmit, fired, lastWrite>>

cleanup ==
    /\ aborted' = Abort(searchAbortControllerRef)
    /\ timers' = ClearTimeout(timers, debounceTimeoutRef)
    /\ cancelled' = cancelled \cup Discarded(debounceTimeoutRef)
    /\ UNCHANGED <<isSearching, searchResults, searchQuery, searchError,
                   searchStats, debounceTimeoutRef, searchAbortControllerRef,
                   attempts, nextTimer, window, lastSubmit, fired, lastWrite,
                   clearMark, producer>>

(***************************************************************************)
(* useAutoSave                                                             *)
(***************************************************************************)
MaxEdits == 2
MaxSaving == 2
NoTimer == [pending |-> FALSE, content |-> 0, documentId |-> Null]
\* setTimeout(() => saveToSupabase(content), 2000): the callback keeps the
\* content and the saveToSupabase (hence the documentId) of its render
SaveTimer(c, d) == [pending |-> TRUE, content |-> c, documentId |-> d]

\* the hook mounted with an editor and no document yet
AutoSaveInit ==
    /\ saveDocumentId = Null /\ attached = FALSE /\ editorContent = 0
    /\ saveStatus = "idle" /\ saveTimer = NoTimer /\ statusTimer = FALSE
    /\ saving = 0
    /\ edited = [d \in DocIds |-> 0] /\ issued = [d \in DocIds |-> 0]

\* the effect cleanup: clearTimeout of both timers, nothing is saved
DropTimer(t) == NoTimer

\* saveToSupabase up to its await
saveToSupabase(c, d) ==
    IF d = Null
    THEN UNCHANGED <<saveStatus, saving, issued>>
    ELSE /\ saveStatus' = "saving"
         /\ saving' = saving + 1
         /\ issued' = [issued EXCEPT ![d] = Max(@, c)]

\* editor 'update' event -> handleUpdate -> debouncedSave(editor.getJSON())
handleUpdate ==
    /\ attached
    /\ editorContent < MaxEdits
    /\ editorContent' = editorContent + 1
    /\ edited' = [edited EXCEPT ![saveDocumentId] = editorContent + 1]
    /\ saveTimer' = SaveTimer(editorContent + 1, saveDocumentId)
    /\ UNCHANGED <<saveDocumentId, attached, saveStatus, statusTimer, saving,
                   issued>>

\* the 2-second debounce timer fires
SaveTimerFire ==
    /\ saveTimer.pending
    /\ saving < MaxSaving
    /\ saveToSupabase(saveTimer.content, saveTimer.documentId)
    /\ saveTimer' = NoTimer
    /\ UNCHANGED <<saveDocumentId, attached, editorContent, statusTimer, edited>>

\* the store answers the update: status saved or error, status timer set
SaveSettle ==
    /\ saving > 0
    /\ saving' = saving - 1
    /\ \E s \in {"saved", "error"} : saveStatus' = s
    /\ statusTimer' = TRUE
    /\ UNCHANGED <<saveDocumentId, attached, editorContent, saveTimer, edited,
                   issued>>

StatusTimerFire ==
    /\ statusTimer
    /\ statusTimer' = FALSE
    /\ saveStatus' = "idle"
    /\ UNCHANGED <<saveDocumentId, attached, editorContent, saveTimer, saving,
                   edited, issued>>

\* the documentId prop changes (Null: no document): cleanup of the effect of
\* the previous render, then the effect of the new one
ChangeDocument(d) ==
    /\ d # saveDocumentId
    /\ saveDocumentId' = d
    /\ attached' = (d # Null)
    /\ IF attached
       THEN saveTimer' = DropTimer(saveTimer) /\ statusTimer' = FALSE
       ELSE UNCHANGED <<saveTimer, statusTimer>>
    /\ UNCHANGED <<editorContent, saveStatus, saving, edited, issued>>

saveNow ==
    /\ saveDocumentId # Null
    /\ saving < MaxSaving
    /\ saveTimer' = NoTimer
    /\ saveToSupabase(editorContent, saveDocumentId)
    /\ UNCHANGED <<saveDocumentId, attached, editorContent, statusTimer, edited>>

(***************************************************************************)
(* mergeAndScore on drawn inputs                                           *)
(***************************************************************************)
MergeFtsInputs == SeqsUpTo({Row(i, DocOfChunk(i), "chunk", 0) : i \in ChunkIds}, MaxRows)
MergeVecInputs ==
    SeqsUpTo({Row(i, DocOfChunk(i), "chunk", sim) : i \in ChunkIds, sim \in SimValues},
             MaxRows)

MergeInit ==
    /\ mFts \in MergeFtsInputs /\ mVec \in MergeVecInputs /\ mW \in WeightPairs
    /\ mOut = <<>> /\ mDone = FALSE

MergeApply ==
    /\ ~mDone
    /\ mOut' = mergeAndScore(mFts, mVec, mW[1], mW[2])
    /\ mDone' = TRUE
    /\ UNCHANGED <<mFts, mVec, mW>>

(***************************************************************************)
(* Specifications                                                          *)
(***************************************************************************)
InitMerge == MergeInit /\ CascadeIdle /\ HookInit /\ AutoSaveInit /\ DocIdle
NextMerge == MergeApply /\ UNCHANGED <<cascadeVars, hookVars, saveVars, docVars>>
SpecMerge == InitMerge /\ [][NextMerge]_vars

InitCascade == MergeIdle /\ CascadeIdle /\ HookInit /\ AutoSaveInit /\ DocIdle
NextCascade ==
    \/ (\E q \in CascadeTexts, o \in Options : LibCall(q, o)) /\ UNCHANGED <<mergeVars, hookVars, saveVars, docVars>>
    \/ LibEmbedOk /\ UNCHANGED <<mergeVars, hookVars, saveVars, docVars>>
    \/ LibEmbedFail /\ UNCHANGED <<mergeVars, hookVars, saveVars, docVars>>
    \/ LibFtsFallback /\ UNCHANGED <<mergeVars, hookVars, saveVars, docVars>>
    \/ LibDocFallback /\ UNCHANGED <<mergeVars, hookVars, saveVars, docVars>>
    \/ LibRpcOk /\ UNCHANGED <<mergeVars, hookVars, saveVars, docVars>>
    \/ LibRpcFail /\ UNCHANGED <<mergeVars, hookVars, saveVars, docVars>>
    \/ LibFts /\ UNCHANGED <<mergeVars, hookVars, saveVars, docVars>>
    \/ LibDoc /\ UNCHANGED <<mergeVars, hookVars, saveVars, docVars>>
    \/ LibVec /\ UNCHANGED <<mergeVars, hookVars, saveVars, docVars>>
    \/ (\E q \in CascadeTexts, o \in {x \in Options : x.fallbackToFTSOnly} : ApiCall(q, o))
          /\ UNCHANGED <<mergeVars, hookVars, saveVars, docVars>>
    \/ ApiEmbedOk /\ UNCHANGED <<mergeVars, hookVars, saveVars, docVars>>
    \/ ApiEmbedFail /\ UNCHANGED <<mergeVars, hookVars, saveVars, docVars>>
    \/ ApiRpcOk /\ UNCHANGED <<mergeVars, hookVars, saveVars, docVars>>
    \/ ApiRpcFail /\ UNCHANGED <<mergeVars, hookVars, saveVars, docVars>>
    \/ ApiFts /\ UNCHANGED <<mergeVars, hookVars, saveVars, docVars>>
    \/ ApiVec /\ UNCHANGED <<mergeVars, hookVars, saveVars, docVars>>
    \/ Return /\ UNCHANGED <<mergeVars, hookVars, saveVars, docVars>>
SpecCascade == InitCascade /\ [][NextCascade]_vars

InitHook == MergeIdle /\ CascadeIdle /\ HookInit /\ AutoSaveInit /\ DocIdle
NextHook ==
    \/ (\E c \in HookCalls : debouncedSearch(c[1], c[2]))
          /\ UNCHANGED <<mergeVars, cascadeVars, saveVars, docVars, blankMark>>
    \/ TimerFire /\ UNCHANGED <<mergeVars, cascadeVars, saveVars, docVars, blankMark>>
    \/ (\E c \in HookCalls : searchNow(c[1], c[2]))
          /\ UNCHANGED <<mergeVars, cascadeVars, saveVars, docVars, blankMark>>
    \/ (\E a \in 1..MaxAttempts, r \in HookOutcomes : Complete(a, r))
          /\ UNCHANGED <<mergeVars, cascadeVars, saveVars, docVars, blankMark>>
    \/ clearSearch /\ UNCHANGED <<mergeVars, cascadeVars, saveVars, docVars, blankMark>>
    \/ cleanup /\ UNCHANGED <<mergeVars, cascadeVars, saveVars, docVars, blankMark>>
SpecHook == InitHook /\ [][NextHook]_vars

(***************************************************************************)
(* Properties                                                              *)
(***************************************************************************)
\* C1: an attempt that publishes (results, stats, query or error) is, at that
\* moment, the most recently started attempt: once B has started, A never
\* writes into the published state.
StaleResultSuppression == ~lastWrite.stale

\* C2: clearSearch leaves results empty, query empty, error null and
\* isSearching false, and no attempt started before a clearSearch call
\* publishes after it.
ClearSearchContract ==
    [][/\ clearSearch => (/\ searchResults' = <<>> /\ searchQuery' = NoText
                          /\ searchError' = Absent /\ ~isSearching')
       /\ ~lastWrite'.cleared]_vars

\* C3: within one debounce window (calls to search() that each arrive while
\* the previous call's timer is pending) performSearch is executed at most
\* once, with the query and options of the last call, and exactly once when
\* the window's timer is neither pending nor was cleared.
DebounceCoalescing ==
    \A b \in 1..window :
        /\ Len(fired[b]) <= 1
        /\ Len(fired[b]) = 1 => fired[b][1] = lastSubmit[b]
        /\ (b \notin cancelled /\ ~\E t \in timers : t.win = b) => Len(fired[b]) = 1
DebounceCoalescingWitness ==
    /\ window = 1 /\ nextTimer > 2
    /\ Len(fired[1]) = 1
    /\ Len(attempts) = 1 /\ attempts[1].query = lastSubmit[1].query

\* C4: when performFTSSearch returned at least one result,
\* performDocumentSearch is not invoked in that attempt.
CascadePrecedence ==
    (ftsReturned.done /\ Len(ftsReturned.rows) > 0) => "doc" \notin calls
CascadePrecedenceWitness ==
    /\ pc = "done" /\ entry = "lib" /\ embedFailed /\ outcome.success
    /\ Len(ftsReturned.rows) > 0 /\ "fts" \in calls

\* C5: the document fallback is not run, and contributes no result, in an
\* attempt in which the lexical or the vector executor returned a result.
DocumentFallbackLast ==
    (/\ pc = "done" /\ outcome.success
     /\ Len(ftsReturned.rows) > 0 \/ Len(vecReturned.rows) > 0)
    => /\ "doc" \notin calls
       /\ \A i \in 1..Len(outcome.results) : outcome.results[i].src # "doc"

\* C6: the fused list holds every passage id at most once, and a passage of
\* both lists is one entry with its lexical score and its vector score.
Occurrences(s, id) == {k \in 1..Len(s) : s[k].id = id}
NoDuplicateIds ==
    mDone =>
      /\ \A i, j \in 1..Len(mOut) : i # j => mOut[i].id # mOut[j].id
      /\ \A id \in ChunkIds :
           (Occurrences(mFts, id) # {} /\ Occurrences(mVec, id) # {}) =>
             \E i \in 1..Len(mOut) :
                /\ mOut[i].id = id
                /\ mOut[i].fts_score \in {FtsScore(k - 1, Len(mFts)) : k \in Occurrences(mFts, id)}
                /\ mOut[i].vector_score \in {mVec[k].similarity : k \in Occurrences(mVec, id)}
NoDuplicateIdsWitness ==
    /\ mDone /\ Len(mOut) >= 2
    /\ \E id \in ChunkIds : Occurrences(mFts, id) # {} /\ Occurrences(mVec, id) # {}

\* C7: the fused list is non-increasing in hybrid_score, and entries of equal
\* hybrid_score stand in insertion order (lexical matches in rank order, then
\* the vector-only matches in vector order).
InsertionRank(id) ==
    LET all == mFts \o mVec
    IN CHOOSE k \in Occurrences(all, id) : \A l \in Occurrences(all, id) : k <= l
FusionOrdering ==
    mDone =>
      \A i, j \in 1..Len(mOut) :
         i < j => /\ mOut[i].hybrid_score >= mOut[j].hybrid_score
                  /\ mOut[i].hybrid_score = mOut[j].hybrid_score
                        => InsertionRank(mOut[i].id) < InsertionRank(mOut[j].id)
FusionOrderingWitness ==
    /\ mDone /\ Len(mOut) = 3
    /\ mOut[1].hybrid_score = mOut[2].hybrid_score
    /\ mOut[2].hybrid_score > mOut[3].hybrid_score
    /\ InsertionRank(mOut[3].id) < InsertionRank(mOut[1].id)

\* C8: every result of a successful outcome computed by the search code has
\* hybrid_score = ftsWeight * fts_score + vectorWeight * vector_score.
HybridScoreFormula ==
    (/\ pc = "done" /\ outcome.success
     /\ outcome.method \in {"javascript_merge", "document_search_fallback"})
    => \A i \in 1..Len(outcome.results) :
          outcome.results[i].hybrid_score =
              opts.weights[1] * outcome.results[i].fts_score
            + opts.weights[2] * outcome.results[i].vector_score

\* C9: a search whose embedding step failed ends with success = true, on the
\* direct library and behind /api/hybrid-search alike.
EmbeddingFailureRecoverable ==
    (pc = "done" /\ embedFailed /\ opts.fallbackToFTSOnly) => outcome.success

\* C10: embedding failed and the lexical executor returned k > 0 matches:
\* success, exactly those matches in order, vector_score 0 throughout, and a
\* method other than the one reported for document-fallback results.
DocumentFallbackMethods ==
    {FallbackMethod(rows) :
        rows \in {performDocumentSearch(a) : a \in DocumentAnswers(NoDocument, 2)} \ {<<>>}}
LexicalFallbackOutcome ==
    (pc = "done" /\ embedFailed /\ ftsReturned.done /\ Len(ftsReturned.rows) > 0)
    => /\ outcome.success
       /\ Len(outcome.results) = Len(ftsReturned.rows)
       /\ \A i \in 1..Len(outcome.results) :
             /\ outcome.results[i].id = ftsReturned.rows[i].id
             /\ outcome.results[i].vector_score = 0
       /\ outcome.method \notin DocumentFallbackMethods

\* C11: lexical and vector executors returned nothing and the document
\* fallback returned matching documents: the outcome carries the
\* document-fallback method, not the fused one, and one result per document
\* (up to limit).
FusedMethods == {"javascript_merge", "supabase_function", "sql_function"}
DocumentFallbackOutcome ==
    (/\ pc = "done" /\ outcome.success
     /\ ftsReturned.done /\ Len(ftsReturned.rows) = 0
     /\ Len(vecReturned.rows) = 0
     /\ docReturned.done /\ Len(docReturned.rows) > 0)
    => /\ outcome.method \in DocumentFallbackMethods
       /\ outcome.method \notin FusedMethods
       /\ Len(outcome.results) = Min(opts.limit, Len(docReturned.rows))
       /\ \A i \in 1..Len(outcome.results) :
             outcome.results[i].id = docReturned.rows[i].id

\* C12: when every source consulted returned nothing the outcome is
\* success = true, results = [], total = 0 with the no-results method; an
\* empty successful outcome never carries a fused or fallback method.
NoResultsMethods == {"no_results_found", "empty_query"}
NoResultsOutcome ==
    /\ (/\ pc = "done" /\ outcome.success /\ ftsReturned.done
        /\ Len(ftsReturned.rows) = 0 /\ Len(vecReturned.rows) = 0
        /\ Len(docReturned.rows) = 0)
       => /\ outcome.results = <<>> /\ outcome.total = 0
          /\ outcome.method \in NoResultsMethods
    /\ (pc = "done" /\ outcome.success /\ outcome.results = <<>>)
       => outcome.method \notin FusedMethods \cup DocumentFallbackMethods

(***************************************************************************)
(* Blank submissions: every entry point fed only empty or white-space text *)
(***************************************************************************)
BlankTexts == {q \in CascadeTexts : Trim(q).length = 0}
BlankCalls == {c \in HookCalls : Trim(c[1]).length = 0}

InitBlank == MergeIdle /\ CascadeIdle /\ HookInit /\ AutoSaveInit /\ DocIdle
NextBlank ==
    \/ (\E q \in BlankTexts, o \in Options : LibCall(q, o)) /\ UNCHANGED <<mergeVars, hookVars, saveVars, docVars>>
    \/ Return /\ UNCHANGED <<mergeVars, hookVars, saveVars, docVars>>
    \/ (\E c \in BlankCalls : debouncedSearch(c[1], c[2]))
          /\ UNCHANGED <<mergeVars, cascadeVars, saveVars, docVars, blankMark>>
    \/ TimerFire /\ UNCHANGED <<mergeVars, cascadeVars, saveVars, docVars, blankMark>>
    \/ (\E c \in BlankCalls : searchNow(c[1], c[2]))
          /\ UNCHANGED <<mergeVars, cascadeVars, saveVars, docVars, blankMark>>
    \/ clearSearch /\ UNCHANGED <<mergeVars, cascadeVars, saveVars, docVars, blankMark>>
    \/ cleanup /\ UNCHANGED <<mergeVars, cascadeVars, saveVars, docVars, blankMark>>
SpecBlank == InitBlank /\ [][NextBlank]_vars

\* C13: hybridSearch with empty or white-space text ends at once with
\* success = true, no result and a no-results method, having called neither
\* the embedding service nor any executor; performSearch with such text
\* starts no attempt (no request, no abort controller, isSearching stays
\* false).
EmptyQueryNoCalls ==
    /\ entry = "lib" =>
          /\ pc = "done"
          /\ outcome.success /\ outcome.results = <<>> /\ outcome.total = 0
          /\ outcome.method \in NoResultsMethods
          /\ calls = {} /\ ~queryEmbedding
          /\ ~ftsReturned.done /\ ~vecReturned.done /\ ~docReturned.done
    /\ attempts = <<>> /\ ~isSearching
    /\ searchAbortControllerRef = Null /\ aborted = {}
EmptyQueryNoCallsWitness ==
    /\ entry = "lib" /\ pc = "done" /\ query.length > 0 /\ Trim(query).length = 0
    /\ window >= 1 /\ Len(fired[1]) = 1 /\ Trim(fired[1][1].query).length = 0
    /\ attempts = <<>>

\* C14: a successful outcome holds at most limit results; on the javascript
\* merge path it holds exactly min(limit, number of distinct candidates),
\* in descending hybrid_score, and no dropped candidate scores higher than a
\* kept one.
FusedFts == IF entry = "api" THEN FilterByDocument(ftsResults, opts.documentId) ELSE ftsResults
FusedVec == IF entry = "api" THEN FilterByDocument(vectorResults, opts.documentId) ELSE vectorResults
Candidates == {FusedFts[k].id : k \in 1..Len(FusedFts)} \cup {FusedVec[k].id : k \in 1..Len(FusedVec)}
CandidateScore(id) ==
    LET f == Occurrences(FusedFts, id)
        v == Occurrences(FusedVec, id)
    IN (IF f = {} THEN 0
        ELSE opts.weights[1] * FtsScore((CHOOSE k \in f : TRUE) - 1, Len(FusedFts)))
     + (IF v = {} THEN 0
        ELSE opts.weights[2] * FusedVec[CHOOSE k \in v : TRUE].similarity)
LimitTruncation ==
    (pc = "done" /\ outcome.success) =>
       /\ Len(outcome.results) <= opts.limit
       /\ outcome.total = Len(outcome.results)
       /\ outcome.method = "javascript_merge" =>
            LET kept == {outcome.results[i].id : i \in 1..Len(outcome.results)} IN
            /\ Len(outcome.results) = Min(opts.limit, Cardinality(Candidates))
            /\ Cardinality(kept) = Len(outcome.results)
            /\ kept \subseteq Candidates
            /\ \A i \in 1..Len(outcome.results) :
                  outcome.results[i].hybrid_score = CandidateScore(outcome.results[i].id)
            /\ \A i \in 1..(Len(outcome.results) - 1) :
                  outcome.results[i].hybrid_score >= outcome.results[i + 1].hybrid_score
            /\ \A c \in Candidates \ kept : \A k \in kept :
                  CandidateScore(c) <= CandidateScore(k)
LimitTruncationWitness ==
    /\ pc = "done" /\ outcome.success /\ outcome.method = "javascript_merge"
    /\ opts.limit = 2 /\ Cardinality(Candidates) > 2 /\ Len(outcome.results) = 2
    /\ \E c \in Candidates : CandidateScore(c) < outcome.results[2].hybrid_score

(***************************************************************************)
(* C15: a store that answers an executor with an error makes that executor *)
(* return the empty list, and the attempt still ends with success = true   *)
(* and no error field, as if the store had found nothing.                  *)
(***************************************************************************)
StoreFailureAbsorbed ==
    /\ "fts" \in storeErrors => ftsReturned = Returned(<<>>)
    /\ "vector" \in storeErrors => vecReturned = Returned(<<>>)
    /\ "doc" \in storeErrors => docReturned = Returned(<<>>)
    /\ (pc = "done" /\ storeErrors # {}) =>
          /\ outcome.success
          /\ outcome.error = Absent
          /\ outcome.total = Len(outcome.results)
StoreFailureAbsorbedWitness ==
    /\ pc = "done"
    /\ "vector" \in storeErrors
    /\ ftsReturned.done /\ Len(ftsReturned.rows) > 0
    /\ outcome.success
    /\ Len(outcome.results) > 0

(***************************************************************************)
(* C16: hybridSearch never throws: every attempt ends with an outcome; an  *)
(* exception that escapes the executors (embedding failure without         *)
(* fallback, store function failure, a failed HTTP exchange) ends it with  *)
(* success = false, no results, total 0 and a non-empty message, and a     *)
(* success = true outcome carries no error.                                *)
(***************************************************************************)
EscapedException ==
    /\ embedFailed
    /\ entry = "lib" => ~opts.fallbackToFTSOnly
NeverThrows ==
    pc = "done" =>
       /\ outcome.success \in BOOLEAN
       /\ outcome.success => outcome.error = Absent
       /\ ~outcome.success =>
             /\ outcome.results = <<>>
             /\ outcome.total = 0
             /\ outcome.error \notin {Absent, ""}
       /\ EscapedException => ~outcome.success
NeverThrowsWitness ==
    /\ pc = "done"
    /\ entry = "lib"
    /\ EscapedException
    /\ ~outcome.success
    /\ outcome.error = "Failed to generate query embedding"

(***************************************************************************)
(* C17: weight monotonicity of mergeAndScore.  For two passages p and q of *)
(* the merge with equal fts_score, vector_score(p) > 0 and                 *)
(* vector_score(q) = 0, and a non-negative ftsWeight: if p is ranked at or *)
(* above q under vectorWeight w, p is ranked at or above q under every     *)
(* larger vectorWeight, the inputs being the same.                         *)
(***************************************************************************)
VectorWeights == {-5, 0, 2, 5, 8, 10}
Position(s, id) == CHOOSE i \in 1..Len(s) : s[i].id = id
WeightMonotonicity ==
    (mDone /\ mW[1] >= 0) =>
       \A w \in VectorWeights :
          w > mW[2] =>
             LET heavier == mergeAndScore(mFts, mVec, mW[1], w)
             IN \A i, j \in 1..Len(mOut) :
                   (/\ i < j
                    /\ mOut[i].fts_score = mOut[j].fts_score
                    /\ mOut[i].vector_score > 0
                    /\ mOut[j].vector_score = 0)
                   => /\ \E k \in 1..Len(heavier) : heavier[k].id = mOut[i].id
                      /\ \E k \in 1..Len(heavier) : heavier[k].id = mOut[j].id
                      /\ Position(heavier, mOut[i].id) < Position(heavier, mOut[j].id)
WeightMonotonicityWitness ==
    /\ mDone /\ mW = <<5, 0>>
    /\ \E i, j \in 1..Len(mOut) :
          /\ i < j
          /\ mOut[i].fts_score = mOut[j].fts_score
          /\ mOut[i].vector_score > 0
          /\ mOut[j].vector_score = 0
          /\ mOut[i].hybrid_score = mOut[j].hybrid_score

(***************************************************************************)
(* C18: in one attempt on the merge branch, mergeAndScore is called only   *)
(* after both performFTSSearch and performVectorSearch of that attempt     *)
(* have returned, whichever returned first, and it is given exactly the    *)
(* two lists those calls returned.                                         *)
(***************************************************************************)
FusionAfterJoin ==
    mergeArgs.called =>
       /\ ftsReturned.done /\ vecReturned.done
       /\ mergeArgs.fts = ftsReturned.rows
       /\ mergeArgs.vec = vecReturned.rows

(***************************************************************************)
(* C19: on every entry point a query text longer than 1000 characters ends *)
(* the attempt with an error outcome (success = false and a message)       *)
(* without any embedding, lexical, vector or document-store call, and a    *)
(* text of exactly 1000 characters passes the validation.                  *)
(***************************************************************************)
OversizedRejected ==
    /\ (entry # "none" /\ query.length > MaxQueryLength) =>
          /\ pc = "done"
          /\ ~outcome.success
          /\ outcome.error \notin {Absent, ""}
          /\ calls = {}
          /\ ~queryEmbedding
          /\ ~ftsReturned.done /\ ~vecReturned.done /\ ~docReturned.done
    /\ (entry # "none" /\ query.length = MaxQueryLength) => "embed" \in calls

PublishedConsistency ==
    searchResults # <<>> =>
       /\ producer # NoProducer
       /\ searchQuery = producer.query
       /\ searchStats = producer.stats
       /\ searchStats.total = Len(searchResults)
PublishedConsistencyWitness ==
    /\ searchResults # <<>>
    /\ searchQuery = Text("b", 1, 0)
    /\ Len(attempts) = 2 /\ attempts[1].status = "done" /\ attempts[2].status = "done"
    /\ lastWrite.stale

InitAutoSave == MergeIdle /\ CascadeIdle /\ HookInit /\ AutoSaveInit /\ DocIdle
SearchIdle == UNCHANGED <<mergeVars, cascadeVars, hookVars, docVars>>
NextAutoSave ==
    \/ handleUpdate /\ SearchIdle
    \/ SaveTimerFire /\ SearchIdle
    \/ SaveSettle /\ SearchIdle
    \/ StatusTimerFire /\ SearchIdle
    \/ (\E d \in DocIds \cup {Null} : ChangeDocument(d)) /\ SearchIdle
    \/ saveNow /\ SearchIdle
\* a pending timer fires and a pending store call is answered
SpecAutoSave ==
    /\ InitAutoSave /\ [][NextAutoSave]_vars
    /\ WF_vars(SaveTimerFire /\ SearchIdle)
    /\ WF_vars(SaveSettle /\ SearchIdle)
    /\ WF_vars(StatusTimerFire /\ SearchIdle)

\* C22: every editor update on a document is eventually followed by a save,
\* issued to the store for that document, of content at least as recent as
\* the update, also when the document id changes or the hook unmounts before
\* the debounce timer of that update has fired.
NoWorkLost ==
    \A d \in DocIds : \A v \in 1..MaxEdits :
       (edited[d] = v) ~> (issued[d] >= v)

(***************************************************************************)
(* C23: when useSupabaseFunction is true and performSupabaseHybridSearch   *)
(* throws, hybridSearch of the library falls back to the JavaScript merge  *)
(* (lexical and vector executors, mergeAndScore) and returns success =     *)
(* true with method 'javascript_merge', not an error outcome.              *)
(***************************************************************************)
StoreFunctionFallback ==
    (entry = "lib" /\ opts.useSupabaseFunction /\ rpcThrew) =>
       /\ pc = "done" =>
             /\ outcome.success
             /\ outcome.method = "javascript_merge"
             /\ mergeArgs.called
       /\ pc # "done" => pc \in {"lib_fts", "lib_doc", "lib_vec"}

(***************************************************************************)
(* C24: for a lexical list of N >= 1 matches, the match at 0-based rank r  *)
(* gets fts_score = max(0, 1 - r/N): rank 0 gets exactly 1, the scores     *)
(* strictly decrease with the rank, every lexical match has a score        *)
(* strictly greater than 0 and at most 1, and a vector-only match gets     *)
(* fts_score exactly 0.  (Scores are in units of 1/Scale.)                 *)
(***************************************************************************)
LexicalScoreOf(id) == mOut[Position(mOut, id)].fts_score
RankToScore ==
    (mDone /\ DistinctIds(mFts)) =>
       LET N == Len(mFts) IN
       /\ \A r \in 1..N :
             /\ \E k \in 1..Len(mOut) : mOut[k].id = mFts[r].id
             /\ LexicalScoreOf(mFts[r].id) * N = Scale * (N - (r - 1))
             /\ LexicalScoreOf(mFts[r].id) > 0
             /\ LexicalScoreOf(mFts[r].id) <= Scale
             /\ r = 1 => LexicalScoreOf(mFts[r].id) = Scale
             /\ r < N => LexicalScoreOf(mFts[r].id) > LexicalScoreOf(mFts[r + 1].id)
       /\ \A k \in 1..Len(mOut) :
             Occurrences(mFts, mOut[k].id) = {} => mOut[k].fts_score = 0
RankToScoreWitness ==
    /\ mDone /\ DistinctIds(mFts) /\ Len(mFts) = MaxRows
    /\ LexicalScoreOf(mFts[MaxRows].id) * MaxRows = Scale
    /\ \E k \in 1..Len(mOut) :
          Occurrences(mFts, mOut[k].id) = {} /\ mOut[k].vector_score > 0

(***************************************************************************)
(* C25: searchNow starts its attempt at once (no timer), and a debounced   *)
(* search() call whose timer was pending when searchNow was called never   *)
(* starts an attempt.                                                      *)
(***************************************************************************)
SearchNowSupersedes ==
    [][/\ \A c \in HookCalls :
             searchNow(c[1], c[2]) =>
                /\ timers' = {}
                /\ \A t \in timers : t.win \in cancelled'
                /\ ~IsBlank(c[1]) =>
                      /\ Len(attempts') = Len(attempts) + 1
                      /\ attempts'[Len(attempts')].query = c[1]
                      /\ attempts'[Len(attempts')].status = "pending"
                      /\ isSearching'
       /\ \A b \in cancelled' : fired'[b] = <<>>]_vars
SearchNowSupersedesWitness ==
    /\ window = 1 /\ nextTimer = 2 /\ 1 \in cancelled
    /\ timers = {} /\ fired[1] = <<>>
    /\ Len(attempts) = 1 /\ attempts[1].status = "pending" /\ isSearching
    /\ attempts[1].query # lastSubmit[1].query

(***************************************************************************)
(* C26: clearSearch discards a pending debounced submission: when search() *)
(* was called and its timer has not fired at the call of clearSearch, no   *)
(* attempt is ever started from that search() call.                        *)
(***************************************************************************)
ClearSearchDiscardsPending ==
    [][/\ clearSearch =>
             /\ timers' = {}
             /\ \A t \in timers : t.win \in cancelled' /\ fired'[t.win] = <<>>
             /\ attempts' = attempts
       /\ \A t \in timers' : t.win \notin cancelled'
       /\ \A b \in cancelled : fired'[b] = fired[b]]_vars
ClearSearchDiscardsPendingWitness ==
    /\ window = 1 /\ nextTimer = 2 /\ 1 \in cancelled
    /\ timers = {} /\ fired[1] = <<>>
    /\ attempts = <<>> /\ ~isSearching
    /\ lastSubmit[1].query = Text("a", 1, 0)

(***************************************************************************)
(* C27: whenever the most recently started attempt has not completed and   *)
(* has not been cancelled by clearSearch, isSearching is true; and the     *)
(* completion of a superseded attempt neither sets isSearching to false    *)
(* nor clears the abort controller of the current attempt.                 *)
(***************************************************************************)
IsSearchingTracks ==
    (/\ Len(attempts) > 0
     /\ attempts[Len(attempts)].status = "pending"
     /\ clearMark < Len(attempts))
    => /\ isSearching
       /\ searchAbortControllerRef = Len(attempts)

(***************************************************************************)
(* C28: in every reachable state of the hook, under any interleaving of    *)
(* overlapping attempts, a non-null searchError implies that the published *)
(* result list is empty and the published total is 0.                      *)
(***************************************************************************)
ErrorExcludesResults ==
    searchError # Absent => (searchResults = <<>> /\ searchStats.total = 0)

(***************************************************************************)
(* The hook with the attempts in flight at the last blank submission       *)
(* recorded in blankMark                                                   *)
(***************************************************************************)
OtherIdle == UNCHANGED <<mergeVars, cascadeVars, saveVars, docVars>>
MarkBlank(q) ==
    blankMark' = IF IsBlank(q) THEN InFlightUpTo(Len(attempts), 0) ELSE blankMark
InitEmptySubmit == InitHook
NextEmptySubmit ==
    \/ (\E c \in HookCalls : debouncedSearch(c[1], c[2]))
          /\ UNCHANGED blankMark /\ OtherIdle
    \/ (\E t \in timers : TimerFire /\ timers' = timers \ {t} /\ MarkBlank(t.query))
          /\ OtherIdle
    \/ (\E c \in HookCalls : searchNow(c[1], c[2]) /\ MarkBlank(c[1])) /\ OtherIdle
    \/ (\E a \in 1..MaxAttempts, r \in HookOutcomes :
           Complete(a, r) /\ blankMark' = InFlightUpTo(blankMark, a)) /\ OtherIdle
    \/ clearSearch /\ UNCHANGED blankMark /\ OtherIdle
    \/ cleanup /\ UNCHANGED blankMark /\ OtherIdle
SpecEmptySubmit == InitEmptySubmit /\ [][NextEmptySubmit]_vars

(***************************************************************************)
(* C29: after performSearch ran with empty or white-space text (through    *)
(* searchNow or a fired debounce timer) the published result list is empty *)
(* and stays empty until a later non-empty submission publishes: an        *)
(* attempt in flight at the empty submission does not publish results      *)
(* afterwards.                                                             *)
(***************************************************************************)
BlankSubmission ==
    \/ \E c \in HookCalls : IsBlank(c[1]) /\ searchNow(c[1], c[2])
    \/ \E t \in timers : IsBlank(t.query) /\ timers' = timers \ {t}
                            /\ Len(fired'[t.win]) = Len(fired[t.win]) + 1
EmptySubmissionSupersedes ==
    [][/\ BlankSubmission => searchResults' = <<>>
       /\ \A a \in 1..Len(attempts) :
             (/\ attempts[a].status = "pending" /\ attempts'[a].status = "done"
              /\ a <= blankMark)
             => searchResults' \in {searchResults, <<>>}]_vars

(***************************************************************************)
(* performDocumentSearch on drawn documents tables                         *)
(***************************************************************************)
DocSearchInit ==
    /\ dTable \in DocumentTables
    /\ dScope \in {NoDocument} \cup DocIds
    /\ dLimit \in Limits
    /\ dError = FALSE /\ dOut = <<>> /\ dDone = FALSE

DocSearchApply ==
    /\ ~dDone
    /\ \E err \in BOOLEAN :
         LET answer == IF err THEN StoreAnswer(TRUE, <<>>)
                       ELSE StoreAnswer(FALSE, DocumentQuery(dTable, dScope, dLimit))
         IN /\ dError' = err
            /\ dOut' = performDocumentSearch(answer)
    /\ dDone' = TRUE
    /\ UNCHANGED <<dTable, dScope, dLimit>>

InitDocSearch == MergeIdle /\ CascadeIdle /\ HookInit /\ AutoSaveInit /\ DocSearchInit
NextDocSearch ==
    DocSearchApply /\ UNCHANGED <<mergeVars, cascadeVars, hookVars, saveVars>>
SpecDocSearch == InitDocSearch /\ [][NextDocSearch]_vars

\* C30: performDocumentSearch(query, scope, limit) returns a result for
\* min(limit, m) documents, m being the number of in-scope documents whose
\* title or extracted body contains the query; a matching document is not
\* missed because non-matching documents precede it in the store; each
\* result has the document id as id and document_id.
MatchingInScope ==
    {i \in 1..Len(dTable) : dTable[i].matches /\ InScope(dTable[i].id, dScope)}
DocumentFallbackComplete ==
    (dDone /\ ~dError) =>
       /\ Len(dOut) = Min(dLimit, Cardinality(MatchingInScope))
       /\ \A k \in 1..Len(dOut) :
             /\ dOut[k].id = DocRowId(dOut[k].document_id)
             /\ \E i \in MatchingInScope : dTable[i].id = dOut[k].document_id

====
